---- MODULE Spec2Model ----
(***************************************************************************)
(* Model of app.py, the Streamlit script that draws the band diagram of a  *)
(* metal / p-type semiconductor (Schottky) contact.                        *)
(*                                                                         *)
(* The script is run top to bottom once per slider change.  One run is     *)
(* modelled as the sequence of steps                                       *)
(*   ReadSliders -> CalculatePhysics -> GenerateProfile -> RenderChart     *)
(*   -> ShowCalculations -> (ExportData)                                   *)
(* and Rerun is the user moving a slider after a run has ended.            *)
(*                                                                         *)
(* Numbers.  The script computes in IEEE doubles.  Here                    *)
(*   - concentrations, transcendental terms and every intermediate of the  *)
(*     solver are decimal floating-point numbers with a four digit         *)
(*     significand (records [nan, m, e] standing for m * 10^e),            *)
(*   - energies that the script stores (F, Ws, Vbi, Sbh, the bands) are    *)
(*     fixed-point integers in meV, positions and w are integers in pm,    *)
(*   - NaN is a value of its own that every operation propagates.          *)
(***************************************************************************)
EXTENDS Integers, Sequences, FiniteSets

(***************************************************************************)
(* Decimal floating point                                                  *)
(***************************************************************************)
Mant == 10000

NaN == [nan |-> TRUE, m |-> 0, e |-> 0]

Zero == [nan |-> FALSE, m |-> 0, e |-> 0]

IAbs(n) == IF n < 0 THEN -n ELSE n

Sgn(n) == IF n < 0 THEN -1 ELSE IF n > 0 THEN 1 ELSE 0

RECURSIVE Pow10(_)
Pow10(k) == IF k <= 0 THEN 1 ELSE 10 * Pow10(k - 1)

\* number of decimal digits of a > 0
RECURSIVE NDigits(_)
NDigits(a) == IF a < 10 THEN 1 ELSE 1 + NDigits(a \div 10)

\* a / 10^k rounded to nearest
RoundShift(a, k) == IF k <= 0 THEN a ELSE (a + 5 * Pow10(k - 1)) \div Pow10(k)

\* the float nearest to m * 10^e, significand in Mant/10 .. Mant-1
Norm(m, e) ==
  IF m = 0 THEN Zero
  ELSE LET a == IAbs(m)
           d == NDigits(a)
       IN  IF d > 4
           THEN LET r == RoundShift(a, d - 4)
                IN  IF r >= Mant
                    THEN [nan |-> FALSE, m |-> Sgn(m) * (Mant \div 10), e |-> e + d - 3]
                    ELSE [nan |-> FALSE, m |-> Sgn(m) * r, e |-> e + d - 4]
           ELSE [nan |-> FALSE, m |-> m * Pow10(4 - d), e |-> e - (4 - d)]

FromInt(n) == Norm(n, 0)

FNeg(x) == IF x.nan THEN NaN ELSE [x EXCEPT !.m = -x.m]

FAbs(x) == IF x.nan THEN NaN ELSE [x EXCEPT !.m = IAbs(x.m)]

FMul(x, y) == IF x.nan \/ y.nan THEN NaN ELSE Norm(x.m * y.m, x.e + y.e)

\* y # 0 (a Python float division by zero raises and is handled where it happens)
FDiv(x, y) ==
  IF x.nan \/ y.nan THEN NaN
  ELSE Norm(Sgn(x.m) * Sgn(y.m) * ((IAbs(x.m) * 100000) \div IAbs(y.m)), x.e - y.e - 5)

FAdd(x, y) ==
  IF x.nan \/ y.nan THEN NaN
  ELSE IF x.m = 0 THEN y
  ELSE IF y.m = 0 THEN x
  ELSE LET hi == IF x.e >= y.e THEN x ELSE y
           lo == IF x.e >= y.e THEN y ELSE x
           d  == hi.e - lo.e
       IN  IF d > 5 THEN hi ELSE Norm(hi.m * Pow10(d) + lo.m, lo.e)

FSub(x, y) == FAdd(x, FNeg(y))

FIsNeg(x) == ~x.nan /\ x.m < 0

FIsZero(x) == ~x.nan /\ x.m = 0

\* x < y, FALSE when either is NaN (IEEE comparison)
FLess(x, y) == ~x.nan /\ ~y.nan /\ FIsNeg(FSub(x, y))

\* largest r with r * r <= n, searched in lo .. hi
RECURSIVE ISqrtIn(_, _, _)
ISqrtIn(n, lo, hi) ==
  IF lo >= hi THEN lo
  ELSE LET mid == (lo + hi + 1) \div 2
       IN  IF mid * mid <= n THEN ISqrtIn(n, mid, hi) ELSE ISqrtIn(n, lo, mid - 1)

ISqrt(n) == ISqrtIn(n, 0, 40000)

\* np.sqrt: NaN for a negative argument
FSqrt(x) ==
  IF x.nan \/ x.m < 0 THEN NaN
  ELSE IF x.m = 0 THEN Zero
  ELSE IF x.e % 2 = 0 THEN Norm(ISqrt(x.m * 10000), (x.e - 4) \div 2)
  ELSE Norm(ISqrt(x.m * 100000), (x.e - 5) \div 2)

(***************************************************************************)
(* ln, exp and cube root, on fixed-point arguments of scale Mant           *)
(***************************************************************************)
Ln10 == 23026

\* ln(y / Mant) * Mant for y in Mant .. 10 * Mant - 1
LnFix(y) ==
  LET y1 == IF y >= 31623 THEN (y * Mant) \div 31623 ELSE y
      c1 == IF y >= 31623 THEN 11513 ELSE 0
      y2 == IF y1 >= 17783 THEN (y1 * Mant) \div 17783 ELSE y1
      c2 == IF y1 >= 17783 THEN 5756 ELSE 0
      t  == ((y2 - Mant) * Mant) \div (y2 + Mant)
      t2 == (t * t) \div Mant
      p3 == (t * t2) \div Mant
      p5 == (p3 * t2) \div Mant
      p7 == (p5 * t2) \div Mant
  IN  c1 + c2 + 2 * (t + p3 \div 3 + p5 \div 5 + p7 \div 7)

\* exp(r / Mant) * Mant for r in 0 .. Ln10
ExpFix(r) ==
  LET s  == r \div 4
      a6 == Mant + s \div 6
      a5 == Mant + (s * a6) \div (5 * Mant)
      a4 == Mant + (s * a5) \div (4 * Mant)
      a3 == Mant + (s * a4) \div (3 * Mant)
      a2 == Mant + (s * a3) \div (2 * Mant)
      a1 == Mant + (s * a2) \div Mant
      e2 == (a1 * a1) \div Mant
  IN  (e2 * e2) \div Mant

\* round(x * 10^k) for a float x that is not NaN
ToFix(x, k) ==
  LET sh == x.e + k
  IN  IF sh >= 0 THEN x.m * Pow10(sh)
      ELSE IF sh < -5 THEN 0
      ELSE Sgn(x.m) * RoundShift(IAbs(x.m), -sh)

\* np.log: NaN for a negative argument (log(0) = -inf does not arise: the
\* arguments are a quotient of positives or exceed 1/2)
FLn(x) ==
  IF x.nan \/ x.m <= 0 THEN NaN
  ELSE Norm(LnFix(x.m * 10) + (x.e + 3) * Ln10, -4)

\* np.exp
FExp(x) ==
  IF x.nan THEN NaN
  ELSE LET X == ToFix(x, 4)
           n == X \div Ln10
       IN  Norm(ExpFix(X - n * Ln10), n - 4)

\* x ** (1/3) for x > 0
FCbrt(x) ==
  IF x.nan \/ x.m <= 0 THEN NaN
  ELSE LET E == x.e + 3
           k == E \div 3
       IN  Norm(ExpFix((LnFix(x.m * 10) + (E - 3 * k) * Ln10) \div 3), k - 4)

\* 10 ** (n / 10): the slider's exponent n is in tenths
TenTo(n) == Norm(ExpFix(((n % 10) * Ln10) \div 10), (n \div 10) - 4)

(***************************************************************************)
(* Stored quantities: fixed-point numbers (energies in meV, lengths in pm) *)
(* or NaN                                                                  *)
(***************************************************************************)
Num(v) == [nan |-> FALSE, v |-> v]

NaNx == [nan |-> TRUE, v |-> 0]

XAdd(a, b) == IF a.nan \/ b.nan THEN NaNx ELSE Num(a.v + b.v)

XSub(a, b) == IF a.nan \/ b.nan THEN NaNx ELSE Num(a.v - b.v)

XNeg(a) == IF a.nan THEN NaNx ELSE Num(-a.v)

XAbs(a) == IF a.nan THEN NaNx ELSE Num(IAbs(a.v))

\* comparisons with NaN are false
XGt(a, b) == ~a.nan /\ ~b.nan /\ a.v > b.v

XGe(a, b) == ~a.nan /\ ~b.nan /\ a.v >= b.v

XLt(a, b) == ~a.nan /\ ~b.nan /\ a.v < b.v

\* the stored value of the float x, in units of 10^-k
Quantize(x, k) == IF x.nan THEN NaNx ELSE Num(ToFix(x, k))

\* the float of the stored value a, which is in units of 10^-k
Float(a, k) == IF a.nan THEN NaN ELSE Norm(a.v, -k)

(***************************************************************************)
(* calculate_physics: constants                                            *)
(***************************************************************************)
q == Norm(16, -20)

e0 == Norm(885, -16)

e1 == FromInt(5)

k_eV == Norm(8617, -8)

k_J == Norm(13806, -27)

h == Norm(6626, -37)

m_0 == Norm(9109, -34)

m == FMul(Norm(81, -2), m_0)

g == FromInt(4)

Eg == 1120

Ea0 == Norm(45, -3)

Pi == Norm(31416, -4)

(***************************************************************************)
(* calculate_physics: the expressions that the claims single out.  T is    *)
(* the slider's integer, Na a float, energies in meV, w in pm.             *)
(***************************************************************************)
\* line 71
Workfunction(xs, f) == XAdd(Num(xs), f)

\* line 74
BuiltIn(ws, wm) == XSub(ws, Num(wm))

\* line 77
BarrierHeight(f, vbi) == XAdd(f, vbi)

\* DepletionWidth without abs(): the square root of a negative number is NaN
DepletionWidthNoAbs(vbi, na) ==
  Quantize(FMul(FSqrt(FDiv(FMul(FMul(FMul(FromInt(2), Float(vbi, 3)), e0), e1),
                           FMul(q, na))),
                Norm(1, 7)), 3)

\* line 82: w = np.sqrt((2 * abs(Vbi) * e0 * e1) / (q * Na)) * 1e7
DepletionWidth(vbi, na) ==
  Quantize(FMul(FSqrt(FDiv(FMul(FMul(FMul(FromInt(2), FAbs(Float(vbi, 3))), e0), e1),
                           FMul(q, na))),
                Norm(1, 7)), 3)

(***************************************************************************)
(* numpy helpers                                                           *)
(***************************************************************************)
\* np.linspace(a, b, n): n evenly spaced samples, the last one b itself
linspace(a, b, n) ==
  IF a.nan \/ b.nan THEN [i \in 1..n |-> NaNx]
  ELSE [i \in 1..n |->
          IF i = n /\ n > 1 THEN b
          ELSE IF n = 1 THEN a
          ELSE Num(a.v + ((b.v - a.v) * (i - 1)) \div (n - 1))]

\* full_like written as zeros_like
full_like_zeros(xs, v) == [i \in 1..Len(xs) |-> Num(0)]

full_like(xs, v) == [i \in 1..Len(xs) |-> v]

zeros_like(xs) == [i \in 1..Len(xs) |-> Num(0)]

concatenate(xs, ys) == xs \o ys

(***************************************************************************)
(* Sample counts of the three zones (200, 100 and 100 in the script) and   *)
(* the slider settings the model draws from.  Exponents are in tenths,     *)
(* Wm and Xs in meV.                                                       *)
(***************************************************************************)
NMetal == 3

NDep == 4

NBulk == 3

MetalMargin == 10000

BulkMargin == 20000

Defaults == [T |-> 300, Na_exp |-> 160, Nd_exp |-> 120, Wm |-> 4500, Xs |-> 4050]

SliderSettings ==
  [T : {200, 300}, Na_exp : {140, 160, 200}, Nd_exp : {120, 130, 160},
   Wm : {4250, 4500}, Xs : {4050, 4300}]

(***************************************************************************)
(* State: the slider widgets, the script's position, the module-level      *)
(* names bound so far in this run and their values, what the page shows,   *)
(* and two records kept for the statements about runs: prev, the inputs   *)
(* and outputs of the previous run, and first, those of the first run.    *)
(***************************************************************************)
VARIABLES widget, pc, names, shown, prev, first,
          T, Na_exp, Nd_exp, Wm, Xs, Na, Nd,
          Ea, Nv, term1, exp_term, term_inside_sqrt, term2_inner, term2,
          F, Ws, Vbi, Sbh, w,
          x_metal, x_sc_dep, x_sc_bulk, v_pot,
          Ec_bulk, Ec_dep, Ev_bulk, Ev_dep, Evac_bulk, Evac_dep,
          y_metal_fermi, y_metal_vac,
          fig, x_full_sc, y_Ec, y_Ev, y_Evac

paramVars == <<T, Na_exp, Nd_exp, Wm, Xs, Na, Nd>>

\* the locals of calculate_physics that it does not return
localVars == <<Ea, Nv, term1, exp_term, term_inside_sqrt, term2_inner, term2>>

scalarVars == <<F, Ws, Vbi, Sbh, w>>

profileVars == <<x_metal, x_sc_dep, x_sc_bulk, v_pot, Ec_bulk, Ec_dep, Ev_bulk, Ev_dep,
                 Evac_bulk, Evac_dep, y_metal_fermi, y_metal_vac>>

chartVars == <<fig, x_full_sc, y_Ec, y_Ev, y_Evac>>

vars == <<widget, pc, names, shown, prev, first, paramVars, localVars, scalarVars, profileVars, chartVars>>

Halted == {"done", "ZeroDivisionError", "NameError"}

\* what a run has produced
Outputs ==
  [pc |-> pc, shown |-> shown, F |-> F, Ws |-> Ws, Vbi |-> Vbi, Sbh |-> Sbh, w |-> w,
   x_metal |-> x_metal, y_metal_fermi |-> y_metal_fermi, y_metal_vac |-> y_metal_vac,
   x_full_sc |-> x_full_sc, y_Ec |-> y_Ec, y_Ev |-> y_Ev, y_Evac |-> y_Evac]

\* a fresh module namespace: nothing bound, nothing shown
Fresh ==
  /\ pc = "sliders"
  /\ names = {}
  /\ shown = {}
  /\ T = 0 /\ Na_exp = 0 /\ Nd_exp = 0 /\ Wm = 0 /\ Xs = 0
  /\ Na = Zero /\ Nd = Zero
  /\ Ea = Zero /\ Nv = Zero /\ term1 = Zero /\ exp_term = Zero
  /\ term_inside_sqrt = Zero /\ term2_inner = Zero /\ term2 = Zero
  /\ F = Num(0) /\ Ws = Num(0) /\ Vbi = Num(0) /\ Sbh = Num(0) /\ w = Num(0)
  /\ x_metal = <<>> /\ x_sc_dep = <<>> /\ x_sc_bulk = <<>> /\ v_pot = <<>>
  /\ Ec_bulk = <<>> /\ Ec_dep = <<>> /\ Ev_bulk = <<>> /\ Ev_dep = <<>>
  /\ Evac_bulk = <<>> /\ Evac_dep = <<>>
  /\ y_metal_fermi = <<>> /\ y_metal_vac = <<>>
  /\ fig = <<>> /\ x_full_sc = <<>> /\ y_Ec = <<>> /\ y_Ev = <<>> /\ y_Evac = <<>>

NoOutputs ==
  [pc |-> "sliders", shown |-> {}, F |-> Num(0), Ws |-> Num(0), Vbi |-> Num(0),
   Sbh |-> Num(0), w |-> Num(0),
   x_metal |-> <<>>, y_metal_fermi |-> <<>>, y_metal_vac |-> <<>>,
   x_full_sc |-> <<>>, y_Ec |-> <<>>, y_Ev |-> <<>>, y_Evac |-> <<>>]

NoRun == [valid |-> FALSE, in |-> Defaults, out |-> NoOutputs]

Init ==
  /\ widget = Defaults
  /\ prev = NoRun
  /\ first = NoRun
  /\ Fresh

(***************************************************************************)
(* Lines 18-26: the sliders are read and the exponents made linear.        *)
(***************************************************************************)
\* ReadSliders with Na kept from the run before instead of recomputed
ReadSlidersCached ==
  /\ pc = "sliders"
  /\ T' = widget.T
  /\ Na_exp' = widget.Na_exp
  /\ Nd_exp' = widget.Nd_exp
  /\ Wm' = widget.Wm
  /\ Xs' = widget.Xs
  /\ Na' = IF prev.valid THEN TenTo(prev.in.Na_exp) ELSE TenTo(widget.Na_exp)
  /\ Nd' = TenTo(widget.Nd_exp)
  /\ names' = names \cup {"T", "Na_exp", "Nd_exp", "Wm", "Xs", "Na", "Nd"}
  /\ pc' = "solve"
  /\ UNCHANGED <<widget, shown, prev, first, localVars, scalarVars, profileVars, chartVars>>

ReadSliders ==
  /\ pc = "sliders"
  /\ T' = widget.T
  /\ Na_exp' = widget.Na_exp
  /\ Nd_exp' = widget.Nd_exp
  /\ Wm' = widget.Wm
  /\ Xs' = widget.Xs
  /\ Na' = TenTo(widget.Na_exp)
  /\ Nd' = TenTo(widget.Nd_exp)
  /\ names' = names \cup {"T", "Na_exp", "Nd_exp", "Wm", "Xs", "Na", "Nd"}
  /\ pc' = "solve"
  /\ UNCHANGED <<widget, shown, prev, first, localVars, scalarVars, profileVars, chartVars>>

(***************************************************************************)
(* Lines 29-87: calculate_physics is defined and called, and its return    *)
(* value unpacked into module-level names.  Nv / (Na - Nd) is a division   *)
(* of Python floats: it raises ZeroDivisionError when Na = Nd, and         *)
(* np.log of the negative quotient is NaN when Na < Nd.  Nv and Ea stay    *)
(* local to the function.                                                  *)
(***************************************************************************)
SolverReturns == {"F", "Ws", "Vbi", "Sbh", "w", "q", "Na", "e0", "e1", "Eg", "Xs"}

\* kT = k_eV * T
kT(t) == FMul(k_eV, FromInt(t))

\* Each local is bound once, in the order of the statements (a singleton
\* set binds the value of its expression).
CalculatePhysics ==
  /\ pc = "solve"
  /\ \E ea \in {FSub(Ea0, FMul(Norm(55, -9), FCbrt(Na)))} :                \* line 45
     \E inner \in {FDiv(FMul(FMul(FMul(FMul(FromInt(2), Pi), m), FromInt(T)), k_J),
                        FMul(h, h))} :
     \E nv \in {FDiv(FMul(FromInt(2), FMul(inner, FSqrt(inner))), Norm(1, 6))} :  \* line 50
       /\ Ea' = ea
       /\ Nv' = nv
       /\ IF FIsZero(FSub(Na, Nd))
          THEN \* line 58 raises
               /\ pc' = "ZeroDivisionError"
               /\ UNCHANGED <<names, term1, exp_term, term_inside_sqrt, term2_inner,
                              term2, scalarVars>>
          ELSE \E t1 \in {FMul(kT(T), FLn(FDiv(nv, FSub(Na, Nd))))} :        \* line 58
               \E ex \in {FExp(FDiv(ea, kT(T)))} :
               \E et \in {FDiv(FMul(FMul(g, ex), Nd), nv)} :                 \* line 61
               \E tis \in {FAdd(FAdd(FromInt(1),
                                     FDiv(FMul(FMul(FMul(FromInt(4), g), ex), Na), nv)),
                                FMul(et, FSub(et, FromInt(2))))} :           \* lines 62-63
               \E t2i \in {FMul(Norm(5, -1),
                                FAdd(FAdd(FSqrt(tis), FromInt(1)), et))} :   \* line 65
               \E t2 \in {FMul(kT(T), FLn(t2i))} :                           \* line 66
               \E f \in {Quantize(FAdd(t1, t2), 3)} :                        \* line 68, in meV
               \E ws \in {Workfunction(Xs, f)} :                             \* line 71
               \E vbi \in {BuiltIn(ws, Wm)} :                                \* line 74
                 /\ term1' = t1
                 /\ exp_term' = et
                 /\ term_inside_sqrt' = tis
                 /\ term2_inner' = t2i
                 /\ term2' = t2
                 /\ F' = f
                 /\ Ws' = ws
                 /\ Vbi' = vbi
                 /\ Sbh' = BarrierHeight(f, vbi)                             \* line 77
                 /\ w' = DepletionWidth(vbi, Na)                             \* line 82
                 \* lines 84-87
                 /\ names' = names \cup {"calculate_physics"} \cup SolverReturns
                 /\ pc' = "profile"
  /\ UNCHANGED <<widget, shown, prev, first, paramVars, profileVars, chartVars>>

(***************************************************************************)
(* Lines 91-137: the position axes and the energy profiles.                *)
(***************************************************************************)
\* V_z with the factor 2 of the denominator lost
V_z_no_half(z, ww, vbi, na) ==
  LET dz == Float(XSub(z, ww), 3)
  IN  Quantize(FMul(FMul(FDiv(FMul(q, na), FMul(e0, e1)), FMul(dz, dz)),
                    Norm(1, -14)), 3)

\* lines 98-103; q, Na, e0, e1 are the module-level names; z and w in pm,
\* the result in meV
V_z(z, ww, vbi, na) ==
  LET dz == Float(XSub(z, ww), 3)
      potential == Quantize(FMul(FMul(FDiv(FMul(q, na), FMul(FMul(FromInt(2), e0), e1)),
                                      FMul(dz, dz)),
                                 Norm(1, -14)), 3)
  IN  IF XLt(vbi, Num(0)) THEN potential ELSE potential

\* the conduction band without the branch on the sign of Vbi
Ec_dep_no_branch(v, vbi, f) == XAdd(XNeg(v), f)

\* lines 112-115
Ec_dep_at(v, vbi, f) ==
  IF XGe(vbi, Num(0)) THEN XAdd(XNeg(v), f) ELSE XAdd(v, f)

\* the valence band without the branch on the sign of Vbi
Ev_dep_no_branch(v, vbi, f) == XSub(XAdd(XNeg(v), f), Num(Eg))

\* lines 120-123
Ev_dep_at(v, vbi, f) ==
  IF XGe(vbi, Num(0)) THEN XSub(XAdd(XNeg(v), f), Num(Eg))
  ELSE XSub(XAdd(v, f), Num(Eg))

\* lines 128-131
Evac_dep_at(v, vbi, f, xs) ==
  IF XGe(vbi, Num(0)) THEN XAdd(XAdd(XNeg(v), f), Num(xs))
  ELSE XAdd(XAdd(v, f), Num(xs))

ProfileReads == {"w", "F", "Vbi", "Eg", "Xs", "Wm", "q", "Na", "e0", "e1"}

GenerateProfile ==
  /\ pc = "profile"
  /\ IF ProfileReads \subseteq names
     THEN /\ x_metal' = linspace(Num(-MetalMargin), Num(0), NMetal)
          /\ x_sc_dep' = IF XGt(w, Num(0)) THEN linspace(Num(0), w, NDep) ELSE <<Num(0)>>
          /\ x_sc_bulk' = linspace(w, XAdd(w, Num(BulkMargin)), NBulk)
          /\ Ec_bulk' = full_like(x_sc_bulk', F)
          /\ v_pot' = [i \in 1..Len(x_sc_dep') |-> V_z(x_sc_dep'[i], w, Vbi, Na)]
          /\ Ec_dep' = [i \in 1..Len(v_pot') |-> Ec_dep_at(v_pot'[i], Vbi, F)]
          /\ Ev_bulk' = full_like(x_sc_bulk', XSub(F, Num(Eg)))
          /\ Ev_dep' = [i \in 1..Len(v_pot') |-> Ev_dep_at(v_pot'[i], Vbi, F)]
          /\ Evac_bulk' = full_like(x_sc_bulk', XAdd(F, Num(Xs)))
          /\ Evac_dep' = [i \in 1..Len(v_pot') |-> Evac_dep_at(v_pot'[i], Vbi, F, Xs)]
          /\ y_metal_fermi' = zeros_like(x_metal')
          /\ y_metal_vac' = full_like(x_metal', Num(Wm))
          /\ names' = names \cup {"x_metal", "x_sc_dep", "x_sc_bulk", "V_z", "v_pot",
                                  "Ec_bulk", "Ec_dep", "Ev_bulk", "Ev_dep",
                                  "Evac_bulk", "Evac_dep", "y_metal_fermi",
                                  "y_metal_vac"}
          /\ pc' = "render"
     ELSE /\ pc' = "NameError"
          /\ UNCHANGED <<names, profileVars>>
  /\ UNCHANGED <<widget, shown, prev, first, paramVars, localVars, scalarVars, chartVars>>

(***************************************************************************)
(* Lines 140-176: the figure's traces and the chart.                       *)
(***************************************************************************)
Trace(name, x, y) == [name |-> name, x |-> x, y |-> y]

RenderReads == {"x_metal", "y_metal_fermi", "y_metal_vac", "x_sc_dep", "x_sc_bulk",
                "Ec_dep", "Ec_bulk", "Ev_dep", "Ev_bulk", "Evac_dep", "Evac_bulk",
                "Vbi", "w", "Eg", "Xs", "F"}

RenderChart ==
  /\ pc = "render"
  /\ IF RenderReads \subseteq names
     THEN /\ x_full_sc' = concatenate(x_sc_dep, x_sc_bulk)
          /\ y_Ec' = concatenate(Ec_dep, Ec_bulk)
          /\ y_Ev' = concatenate(Ev_dep, Ev_bulk)
          /\ y_Evac' = concatenate(Evac_dep, Evac_bulk)
          /\ fig' = << Trace("Metal Fermi (Ef)", x_metal, y_metal_fermi),
                       Trace("Metal Vacuum", x_metal, y_metal_vac),
                       Trace("fill", x_metal, full_like(x_metal, Num(-2000))),
                       Trace("Conduction Band (Ec)", x_full_sc', y_Ec'),
                       Trace("Valence Band (Ev)", x_full_sc', y_Ev'),
                       Trace("Vacuum Level (Evac)", x_full_sc', y_Evac'),
                       Trace("Semi Fermi (Ef)", x_full_sc', zeros_like(x_full_sc')) >>
          /\ names' = names \cup {"fig", "x_full_sc", "y_Ec", "y_Ev", "y_Evac"}
          /\ shown' = shown \cup {"chart"}
          /\ pc' = "expander"
     ELSE /\ pc' = "NameError"
          /\ UNCHANGED <<names, shown, chartVars>>
  /\ UNCHANGED <<widget, prev, first, paramVars, localVars, scalarVars, profileVars>>

(***************************************************************************)
(* Lines 179-188: the expander's body formats Nv, Ea, F, Ws, Vbi and w.    *)
(* A name that is not bound at module level raises NameError.              *)
(***************************************************************************)
ExpanderReads == {"Nv", "Ea", "F", "Ws", "Vbi", "w"}

ShowCalculations ==
  /\ pc = "expander"
  /\ IF ExpanderReads \subseteq names
     THEN /\ shown' = shown \cup {"calculations"}
          /\ pc' = "export"
     ELSE /\ pc' = "NameError"
          /\ UNCHANGED shown
  /\ UNCHANGED <<widget, names, prev, first, paramVars, localVars, scalarVars, profileVars, chartVars>>

(***************************************************************************)
(* Lines 192-200: the table of the semiconductor samples and the download  *)
(* button.                                                                 *)
(***************************************************************************)
ExportReads == {"x_full_sc", "y_Ec", "y_Ev", "y_Evac"}

\* the DataFrame: one row per element of x_full_sc
df == [i \in 1..Len(x_full_sc) |->
         [Position_nm |-> x_full_sc[i], Ec_eV |-> y_Ec[i], Ev_eV |-> y_Ev[i],
          Evac_eV |-> y_Evac[i]]]

ExportData ==
  /\ pc = "export"
  /\ IF ExportReads \subseteq names
     THEN /\ shown' = shown \cup {"download"}
          /\ names' = names \cup {"pd", "df", "csv"}
          /\ pc' = "done"
     ELSE /\ pc' = "NameError"
          /\ UNCHANGED <<names, shown>>
  /\ UNCHANGED <<widget, prev, first, paramVars, localVars, scalarVars, profileVars, chartVars>>

(***************************************************************************)
(* The user moves sliders after a run has ended: the script runs again     *)
(* from the top in a fresh namespace.                                      *)
(***************************************************************************)
Rerun ==
  /\ pc \in Halted
  /\ \E s \in SliderSettings : widget' = s
  /\ prev' = [valid |-> TRUE, in |-> widget, out |-> Outputs]
  /\ first' = IF first.valid THEN first ELSE [valid |-> TRUE, in |-> widget, out |-> Outputs]
  /\ pc' = "sliders"
  /\ names' = {}
  /\ shown' = {}
  /\ T' = 0 /\ Na_exp' = 0 /\ Nd_exp' = 0 /\ Wm' = 0 /\ Xs' = 0
  /\ Na' = Zero /\ Nd' = Zero
  /\ Ea' = Zero /\ Nv' = Zero /\ term1' = Zero /\ exp_term' = Zero
  /\ term_inside_sqrt' = Zero /\ term2_inner' = Zero /\ term2' = Zero
  /\ F' = Num(0) /\ Ws' = Num(0) /\ Vbi' = Num(0) /\ Sbh' = Num(0) /\ w' = Num(0)
  /\ x_metal' = <<>> /\ x_sc_dep' = <<>> /\ x_sc_bulk' = <<>> /\ v_pot' = <<>>
  /\ Ec_bulk' = <<>> /\ Ec_dep' = <<>> /\ Ev_bulk' = <<>> /\ Ev_dep' = <<>>
  /\ Evac_bulk' = <<>> /\ Evac_dep' = <<>>
  /\ y_metal_fermi' = <<>> /\ y_metal_vac' = <<>>
  /\ fig' = <<>> /\ x_full_sc' = <<>> /\ y_Ec' = <<>> /\ y_Ev' = <<>> /\ y_Evac' = <<>>

\* pc = "export" is never reached (see ShowCalculations), so ExportData is
\* never enabled and is left out of the next-state relation.
Next ==
  \/ ReadSliders
  \/ CalculatePhysics
  \/ GenerateProfile
  \/ RenderChart
  \/ ShowCalculations
  \/ Rerun

Spec == Init /\ [][Next]_vars

(***************************************************************************)
(* Properties                                                              *)
(***************************************************************************)
Tol == 2

\* the run's sliders satisfy the p-type condition Na > Nd
ValidDoping == widget.Na_exp > widget.Nd_exp

Solved == "F" \in names

ProfileGenerated == "Evac_dep" \in names

ChartRendered == "x_full_sc" \in names

\* Vbi is a number, so it has a sign
Signed == ~Vbi.nan

\* The discriminant 1 + B + A * (A - 2) is (A - 1)^2 + B with B > 0: once
\* computed it is a number and not negative, for every slider setting.
DiscriminantNotNegative ==
  "F" \in names => ~term_inside_sqrt.nan /\ term_inside_sqrt.m >= 0

\* C1: whenever Na <= Nd the solve is rejected before F is evaluated: no scalar
\* result (F, Ws, Vbi, Sbh, w) and no band profile is produced.
C1_InvalidDopingRejected ==
  ~ValidDoping => (~Solved /\ ~ProfileGenerated /\ ~ChartRendered)

\* C2: for either sign of Vbi (w = 0 included), at every sample of the
\* depletion zone and of the bulk zone, and so of the concatenated profile,
\* Ec - Ev = Eg and Evac - Ec = Xs.
C2_BandsParallel ==
  /\ (ProfileGenerated /\ Signed) =>
       /\ \A i \in 1..Len(x_sc_dep) :
            /\ XSub(Ec_dep[i], Ev_dep[i]) = Num(Eg)
            /\ XSub(Evac_dep[i], Ec_dep[i]) = Num(Xs)
       /\ \A i \in 1..Len(x_sc_bulk) :
            /\ XSub(Ec_bulk[i], Ev_bulk[i]) = Num(Eg)
            /\ XSub(Evac_bulk[i], Ec_bulk[i]) = Num(Xs)
  /\ (ChartRendered /\ Signed) =>
       /\ Len(y_Ec) = Len(x_full_sc)
       /\ Len(y_Ev) = Len(x_full_sc)
       /\ Len(y_Evac) = Len(x_full_sc)
       /\ \A i \in 1..Len(x_full_sc) :
            /\ XSub(y_Ec[i], y_Ev[i]) = Num(Eg)
            /\ XSub(y_Evac[i], y_Ec[i]) = Num(Xs)

\* a rendered profile with bent bands and Vbi < 0
C2_Witness ==
  /\ ChartRendered
  /\ XLt(Vbi, Num(0))
  /\ XGt(v_pot[1], Num(0))

\* C3: the positions of the profile handed to rendering and export are
\* strictly increasing, no position repeated.
C3_PositionsStrictlyIncreasing ==
  ChartRendered =>
    \A i \in 1..(Len(x_full_sc) - 1) : XLt(x_full_sc[i], x_full_sc[i + 1])

\* C4: in the depletion zone, when Vbi >= 0 each of Ec, Ev, Evac is its bulk
\* value minus V(z), when Vbi < 0 its bulk value plus V(z); V(z) >= 0, it is 0
\* at z = w and does not grow towards w.
C4_CurvatureBySignOfVbi ==
  ProfileGenerated =>
    /\ Len(v_pot) = Len(x_sc_dep)
    /\ \A i \in 1..Len(x_sc_dep) :
         /\ XGe(Vbi, Num(0)) =>
              /\ v_pot[i].v >= 0
              /\ Ec_dep[i] = XSub(Ec_bulk[1], v_pot[i])
              /\ Ev_dep[i] = XSub(Ev_bulk[1], v_pot[i])
              /\ Evac_dep[i] = XSub(Evac_bulk[1], v_pot[i])
         /\ XLt(Vbi, Num(0)) =>
              /\ v_pot[i].v >= 0
              /\ Ec_dep[i] = XAdd(Ec_bulk[1], v_pot[i])
              /\ Ev_dep[i] = XAdd(Ev_bulk[1], v_pot[i])
              /\ Evac_dep[i] = XAdd(Evac_bulk[1], v_pot[i])
    /\ Signed =>
         /\ v_pot[Len(v_pot)] = Num(0)
         /\ \A i \in 1..(Len(v_pot) - 1) : v_pot[i].v >= v_pot[i + 1].v

\* a profile bent upwards (Vbi < 0) by a positive V at the interface
C4_Witness ==
  /\ ProfileGenerated
  /\ XLt(Vbi, Num(0))
  /\ XGt(v_pot[1], Num(0))
  /\ Ec_dep[1] = XAdd(F, v_pot[1])

\* C6: for valid doping, Ws = Xs + F, Vbi = Ws - Wm, Sbh = F + Vbi, w >= 0,
\* w = 0 exactly when Vbi = 0, and w is the same for Vbi and -Vbi.
C6_ScalarRelations ==
  (Solved /\ ValidDoping) =>
    /\ ~F.nan
    /\ Ws = Num(Xs + F.v)
    /\ Vbi = Num(Ws.v - Wm)
    /\ Sbh = Num(F.v + Vbi.v)
    /\ ~w.nan
    /\ w.v >= 0
    /\ (w.v = 0 <=> Vbi.v = 0)
    /\ w = DepletionWidth(XNeg(Vbi), Na)

\* a solve with Vbi < 0 and a positive depletion width
C6_Witness ==
  /\ Solved
  /\ ValidDoping
  /\ XLt(Vbi, Num(0))
  /\ XGt(w, Num(0))

\* C7: a run with the slider values of the run before it ends where that run
\* ended with the same scalars and the same profile, and a run with the slider
\* values of the first run ends as the first run did, whatever ran in between.
C7_RunsArePure ==
  pc \in Halted =>
    /\ (prev.valid /\ prev.in = widget) => Outputs = prev.out
    /\ (first.valid /\ first.in = widget) => Outputs = first.out

\* a run that repeats the first run's slider values after a run with others
C7_Witness ==
  /\ pc \in Halted
  /\ ChartRendered
  /\ first.valid
  /\ first.in = widget
  /\ prev.in # widget
  /\ prev.out.F # F

\* C8: every metal sample has Fermi level 0 and vacuum level Wm, every bulk
\* sample has Ec = F, Ev = F - Eg, Evac = F + Xs, and the semiconductor Fermi
\* trace is 0 at every semiconductor sample.
C8_FlatLevels ==
  /\ ProfileGenerated =>
       /\ Len(x_metal) = NMetal
       /\ Len(y_metal_fermi) = NMetal
       /\ Len(y_metal_vac) = NMetal
       /\ \A i \in 1..NMetal :
            /\ y_metal_fermi[i] = Num(0)
            /\ y_metal_vac[i] = Num(Wm)
       /\ Len(x_sc_bulk) = NBulk
       /\ \A i \in 1..NBulk :
            /\ Ec_bulk[i] = F
            /\ Ev_bulk[i] = XSub(F, Num(Eg))
            /\ Evac_bulk[i] = XAdd(F, Num(Xs))
  /\ ChartRendered =>
       /\ fig[1] = Trace("Metal Fermi (Ef)", x_metal, y_metal_fermi)
       /\ fig[2] = Trace("Metal Vacuum", x_metal, y_metal_vac)
       /\ fig[7].name = "Semi Fermi (Ef)"
       /\ fig[7].x = x_full_sc
       /\ Len(fig[7].y) = Len(x_full_sc)
       /\ \A i \in 1..Len(x_full_sc) : fig[7].y[i] = Num(0)
       /\ \A i \in 1..NBulk :
            /\ y_Ec[Len(x_sc_dep) + i] = F
            /\ y_Ev[Len(x_sc_dep) + i] = XSub(F, Num(Eg))
            /\ y_Evac[Len(x_sc_dep) + i] = XAdd(F, Num(Xs))

\* a rendered chart of a solve whose F is a number
C8_Witness ==
  /\ ChartRendered
  /\ ~F.nan
  /\ Len(x_sc_dep) = NDep

\* C9: every run with Na > Nd shows the chart and the intermediate values and
\* ends after the CSV export step has offered the table.
C9_RunReachesExport ==
  (pc \in Halted /\ ValidDoping) =>
    /\ pc = "done"
    /\ {"chart", "calculations", "download"} \subseteq shown

\* C10: for either sign of Vbi the vacuum level has no jump: at z = 0 the
\* semiconductor vacuum level is the metal's Wm (to the rounding of the
\* arithmetic), and at z = w the depletion value is the bulk value F + Xs.
C10_VacuumLevelContinuous ==
  (ProfileGenerated /\ Signed) =>
    /\ x_sc_dep[1] = x_metal[NMetal]
    /\ IAbs(Evac_dep[1].v - y_metal_vac[NMetal].v) <= Tol
    /\ x_sc_dep[Len(x_sc_dep)] = x_sc_bulk[1]
    /\ Evac_dep[Len(x_sc_dep)] = Evac_bulk[1]
    /\ Evac_bulk[1] = Num(F.v + Xs)

\* a profile whose bands bend by more than the tolerance
C10_Witness ==
  /\ ProfileGenerated
  /\ Signed
  /\ v_pot[1].v > 10 * Tol
  /\ Len(x_sc_dep) = NDep

\* the profile of a solve with Vbi = 0: w = 0 and a single depletion sample
ZeroWidthProfile ==
  /\ ProfileGenerated
  /\ Vbi = Num(0)
  /\ w = Num(0)
  /\ x_sc_dep = <<Num(0)>>

====
